---- MODULE Spec2Model ----
(***************************************************************************)
(* The image recovery block of the SDR receiver (src/rx_gui.py): a message *)
(* handler that accumulates PDU bytes, cuts JPEG candidates out of the     *)
(* accumulation buffer between the start and end markers, validates them,  *)
(* writes the accepted ones to one output file and signals the GUI thread, *)
(* which loads the file.                                                   *)
(*                                                                         *)
(* Bytes are integers 0..255; Python's 0-based offsets are kept, and a     *)
(* slice b[i:j] is SubSeq(b, i+1, j).                                      *)
(***************************************************************************)
EXTENDS Integers, Sequences, FiniteSets, TLC

JPEG_START == <<255, 216>>

JPEG_END == <<255, 217>>

\* _valid_jpeg: candidates shorter than this are rejected
MinJpegLen == 100

\* ---- bounds of the model ------------------------------------------------
\* non-empty chunks delivered in one run of the sequential specifications
MaxChunks == 4

\* non-empty chunks delivered in one run of the two-thread specification
MaxThreadChunks == 2

\* non-empty chunks delivered in one run of SpecSink
MaxSinkChunks == 3

\* storage failures in one run of SpecSink
MaxRaised == 1

\* length of the filler block (image data without marker bytes)
PadLen == 96

Pad == [i \in 1..PadLen |-> 0]

\* a smallest frame the length check lets through: START + filler + END
FRAME == JPEG_START \o Pad \o JPEG_END

\* a second frame, one byte longer, to tell two frames in a row apart
FRAME2 == JPEG_START \o Pad \o <<216>> \o JPEG_END

\* The PDUs the message source may deliver: the empty PDU, single bytes (so
\* that a marker can be split over two PDUs), whole markers, filler, a whole
\* frame and two back-to-back frames in one PDU.
Chunks ==
    { <<>>, <<255>>, <<216>>, <<217>>, JPEG_START, JPEG_END, Pad, FRAME, FRAME \o FRAME2 }

\* outcomes of "with open(out_jpg, 'wb') as f: f.write(jpg)"
SinkOutcomes == {"ok", "open_fails", "write_fails"}

VARIABLES
    HAS_PIL,         \* whether Pillow was importable
    pilAccepts,      \* Pillow's verdict (Image.open + verify), fixed for a run
    buf,             \* self.buf, the accumulation buffer
    out_jpg,         \* the content of the file at self.out_jpg
    image_received,  \* the payloads for which the signal was emitted, in order
    stream,          \* every byte delivered so far, in order
    budget,          \* non-empty chunks the source may still deliver
    raised,          \* exceptions that propagated out of _handle
    last,            \* the last call of _handle: whether its chunk was empty, what it did
    hpc,             \* position of the handler thread inside _handle
    hloc,            \* the handler's locals e and jpg while it is inside
    shown,           \* signals the GUI thread has consumed
    pixmap,          \* what QPixmap(path) loaded in the last update
    image_label      \* the picture the label shows (<<>>: "Awaiting Image...")

vars ==
    << HAS_PIL, pilAccepts, buf, out_jpg, image_received, stream, budget, raised,
       last, hpc, hloc, shown, pixmap, image_label >>

\* ---- pure helpers ---------------------------------------------------------

Min(S) == CHOOSE x \in S : \A y \in S : x <= y

\* bytes.find(sub) with the start offset left out
find_IgnoreStart(b, sub, start) ==
    LET first == sub[1]
        second == sub[2]
        hits == { i \in 1..(Len(b) - 1) : b[i] = first /\ b[i + 1] = second }
    IN  IF hits = {} THEN -1 ELSE Min(hits) - 1

\* bytes.find(sub, start) for a two-byte sub: lowest offset >= start, or -1
find(b, sub, start) ==
    LET first == sub[1]
        second == sub[2]
        hits == { i \in (start + 1)..(Len(b) - 1) : b[i] = first /\ b[i + 1] = second }
    IN  IF hits = {} THEN -1 ELSE Min(hits) - 1

\* The candidate holds a second start marker after its own.
HasInnerStart(b) == find(b, JPEG_START, 2) >= 0

\* Image.open(io.BytesIO(b)).verify() did not raise.  Pillow is outside the
\* repository: its verdict is a function of the candidate fixed for the run,
\* here one that tells candidates with a nested start marker from plain ones.
PilVerify(b) == pilAccepts[HasInnerStart(b)]

\* _valid_jpeg without its length check
_valid_jpeg_NoLengthCheck(b) == IF ~HAS_PIL THEN TRUE ELSE PilVerify(b)

_valid_jpeg(b) ==
    IF Len(b) < MinJpegLen THEN FALSE
    ELSE IF ~HAS_PIL THEN TRUE
    ELSE PilVerify(b)

\* Faulty variants of the scan (and of find and _valid_jpeg above): each
\* property below is also checked to fail when the code is replaced by one.

\* _handle clearing the whole buffer when the candidate is rejected
Scan_ClearOnInvalid(b) ==
    LET s == find(b, JPEG_START, 0) IN
    IF s < 0 THEN [ret |-> "noStart", buf |-> b, jpg |-> <<>>, e |-> -1]
    ELSE
      LET e == find(b, JPEG_END, s) IN
      IF e < 0 THEN [ret |-> "noEnd", buf |-> b, jpg |-> <<>>, e |-> -1]
      ELSE
        LET jpg == SubSeq(b, s + 1, e + 2) IN
        IF _valid_jpeg(jpg)
        THEN [ret |-> "emitted", buf |-> SubSeq(b, e + 3, Len(b)), jpg |-> jpg, e |-> e]
        ELSE [ret |-> "invalid", buf |-> <<>>, jpg |-> <<>>, e |-> e]

\* _handle slicing the candidate as buf[s:e+1]
Scan_CutShort(b) ==
    LET s == find(b, JPEG_START, 0) IN
    IF s < 0 THEN [ret |-> "noStart", buf |-> b, jpg |-> <<>>, e |-> -1]
    ELSE
      LET e == find(b, JPEG_END, s) IN
      IF e < 0 THEN [ret |-> "noEnd", buf |-> b, jpg |-> <<>>, e |-> -1]
      ELSE
        LET jpg == SubSeq(b, s + 1, e + 1) IN
        IF _valid_jpeg(jpg)
        THEN [ret |-> "emitted", buf |-> SubSeq(b, e + 3, Len(b)), jpg |-> jpg, e |-> e]
        ELSE [ret |-> "invalid", buf |-> SubSeq(b, s + 3, Len(b)), jpg |-> <<>>, e |-> e]

\* _handle clearing the whole buffer after an emission
Scan_ClearOnEmit(b) ==
    LET s == find(b, JPEG_START, 0) IN
    IF s < 0 THEN [ret |-> "noStart", buf |-> b, jpg |-> <<>>, e |-> -1]
    ELSE
      LET e == find(b, JPEG_END, s) IN
      IF e < 0 THEN [ret |-> "noEnd", buf |-> b, jpg |-> <<>>, e |-> -1]
      ELSE
        LET jpg == SubSeq(b, s + 1, e + 2) IN
        IF _valid_jpeg(jpg)
        THEN [ret |-> "emitted", buf |-> <<>>, jpg |-> jpg, e |-> e]
        ELSE [ret |-> "invalid", buf |-> SubSeq(b, s + 3, Len(b)), jpg |-> <<>>, e |-> e]

\* _handle dropping the oldest byte whenever the buffer holds no start marker
Scan_DropOldestNoStart(b) ==
    LET s == find(b, JPEG_START, 0) IN
    IF s < 0 THEN [ret |-> "noStart", buf |-> SubSeq(b, 2, Len(b)), jpg |-> <<>>, e |-> -1]
    ELSE
      LET e == find(b, JPEG_END, s) IN
      IF e < 0 THEN [ret |-> "noEnd", buf |-> b, jpg |-> <<>>, e |-> -1]
      ELSE
        LET jpg == SubSeq(b, s + 1, e + 2) IN
        IF _valid_jpeg(jpg)
        THEN [ret |-> "emitted", buf |-> SubSeq(b, e + 3, Len(b)), jpg |-> jpg, e |-> e]
        ELSE [ret |-> "invalid", buf |-> SubSeq(b, s + 3, Len(b)), jpg |-> <<>>, e |-> e]

\* _handle dropping the bytes before the start marker while the end marker is awaited
Scan_TrimBeforeStart(b) ==
    LET s == find(b, JPEG_START, 0) IN
    IF s < 0 THEN [ret |-> "noStart", buf |-> b, jpg |-> <<>>, e |-> -1]
    ELSE
      LET e == find(b, JPEG_END, s) IN
      IF e < 0 THEN [ret |-> "noEnd", buf |-> SubSeq(b, s + 1, Len(b)), jpg |-> <<>>, e |-> -1]
      ELSE
        LET jpg == SubSeq(b, s + 1, e + 2) IN
        IF _valid_jpeg(jpg)
        THEN [ret |-> "emitted", buf |-> SubSeq(b, e + 3, Len(b)), jpg |-> jpg, e |-> e]
        ELSE [ret |-> "invalid", buf |-> SubSeq(b, s + 3, Len(b)), jpg |-> <<>>, e |-> e]

\* The scan of _handle on the extended buffer b: what it does to the buffer
\* and whether it has a payload to write (storage permitting).
Scan(b) ==
    LET s == find(b, JPEG_START, 0) IN
    IF s < 0 THEN [ret |-> "noStart", buf |-> b, jpg |-> <<>>, e |-> -1]
    ELSE
      LET e == find(b, JPEG_END, s) IN
      IF e < 0 THEN [ret |-> "noEnd", buf |-> b, jpg |-> <<>>, e |-> -1]
      ELSE
        LET jpg == SubSeq(b, s + 1, e + 2) IN
        IF _valid_jpeg(jpg)
        THEN [ret |-> "emitted", buf |-> SubSeq(b, e + 3, Len(b)), jpg |-> jpg, e |-> e]
        ELSE [ret |-> "invalid", buf |-> SubSeq(b, s + 3, Len(b)), jpg |-> <<>>, e |-> e]

NoLocals == [e |-> -1, jpg |-> <<>>]

\* ---- initial states -------------------------------------------------------

InitWith(n) ==
    /\ HAS_PIL \in BOOLEAN
    /\ pilAccepts \in IF HAS_PIL THEN [BOOLEAN -> BOOLEAN] ELSE {[x \in BOOLEAN |-> TRUE]}
    /\ buf = <<>>
    /\ out_jpg = <<>>
    /\ image_received = <<>>
    /\ stream = <<>>
    /\ budget = n
    /\ raised = 0
    /\ last = [empty |-> TRUE, ret |-> "init"]
    /\ hpc = "idle"
    /\ hloc = NoLocals
    /\ shown = 0
    /\ pixmap = <<>>
    /\ image_label = <<>>

Init == InitWith(MaxChunks)

\* ---- the message handler, as one step -------------------------------------

\* _handle(msg) with PDU payload data; sink is what the storage does if the
\* handler gets to write.
_handle(data, sink) ==
    LET r == Scan(buf \o data) IN
    /\ hpc = "idle"
    /\ data # <<>> => budget > 0
    /\ budget' = IF data # <<>> THEN budget - 1 ELSE budget
    /\ stream' = stream \o data
    /\ IF r.ret = "emitted" /\ sink # "ok"
       THEN \* open or write raised: the lines after it are not reached
            /\ raised < MaxRaised
            /\ raised' = raised + 1
            /\ buf' = buf \o data
            /\ out_jpg' = IF sink = "write_fails" THEN <<>> ELSE out_jpg
            /\ last' = [empty |-> data = <<>>, ret |-> "raised"]
            /\ UNCHANGED image_received
       ELSE /\ sink = "ok"
            /\ buf' = r.buf
            /\ out_jpg' = IF r.ret = "emitted" THEN r.jpg ELSE out_jpg
            /\ image_received' =
                 IF r.ret = "emitted" THEN Append(image_received, r.jpg) ELSE image_received
            /\ last' = [empty |-> data = <<>>, ret |-> r.ret]
            /\ UNCHANGED raised
    /\ UNCHANGED << HAS_PIL, pilAccepts, hpc, hloc, shown, pixmap, image_label >>

\* Spec: the storage works.  SpecSink: the open or the write may fail.
Next == \E data \in Chunks : _handle(data, "ok")

Spec == Init /\ [][Next]_vars

NextSink == \E data \in Chunks : \E sink \in SinkOutcomes : _handle(data, sink)

InitSink == InitWith(MaxSinkChunks)

SpecSink == InitSink /\ [][NextSink]_vars

\* ---- the handler thread and the GUI thread, step by step -------------------

InitThreads == InitWith(MaxThreadChunks)

\* _handle up to the validation: extend, find the markers, validate.  A
\* rejected candidate is dropped here; an accepted one is kept in the locals.
HandleScan(data) ==
    LET r == Scan(buf \o data) IN
    /\ hpc = "idle"
    /\ data # <<>> => budget > 0
    /\ budget' = IF data # <<>> THEN budget - 1 ELSE budget
    /\ stream' = stream \o data
    /\ IF r.ret = "emitted"
       THEN /\ buf' = buf \o data
            /\ hloc' = [e |-> r.e, jpg |-> r.jpg]
            /\ hpc' = "open"
            /\ last' = [empty |-> data = <<>>, ret |-> "valid"]
       ELSE /\ buf' = r.buf
            /\ last' = [empty |-> data = <<>>, ret |-> r.ret]
            /\ UNCHANGED << hloc, hpc >>
    /\ UNCHANGED << HAS_PIL, pilAccepts, out_jpg, image_received, raised, shown,
                    pixmap, image_label >>

\* open(self.out_jpg, "wb") truncates the file
HandleOpen ==
    /\ hpc = "open"
    /\ out_jpg' = <<>>
    /\ hpc' = "write"
    /\ UNCHANGED << HAS_PIL, pilAccepts, buf, image_received, stream, budget, raised,
                    last, hloc, shown, pixmap, image_label >>

\* f.write(jpg) and the close at the end of the with block
HandleWrite ==
    /\ hpc = "write"
    /\ out_jpg' = hloc.jpg
    /\ hpc' = "emit"
    /\ UNCHANGED << HAS_PIL, pilAccepts, buf, image_received, stream, budget, raised,
                    last, hloc, shown, pixmap, image_label >>

\* self.proxy.image_received.emit(self.out_jpg): queued for the GUI thread
HandleEmit ==
    /\ hpc = "emit"
    /\ image_received' = Append(image_received, hloc.jpg)
    /\ hpc' = "advance"
    /\ last' = [last EXCEPT !.ret = "emitted"]
    /\ UNCHANGED << HAS_PIL, pilAccepts, buf, out_jpg, stream, budget, raised, hloc,
                    shown, pixmap, image_label >>

\* self.buf = self.buf[e+2:]
HandleAdvance ==
    /\ hpc = "advance"
    /\ buf' = SubSeq(buf, hloc.e + 3, Len(buf))
    /\ hloc' = NoLocals
    /\ hpc' = "idle"
    /\ UNCHANGED << HAS_PIL, pilAccepts, out_jpg, image_received, stream, budget,
                    raised, last, shown, pixmap, image_label >>

\* The slot in the GUI thread, run once per queued signal: QPixmap(path)
\* loads whatever the file holds now; a null pixmap leaves the label alone.
\* An empty file gives a null pixmap; whether Qt decodes other content is
\* Qt's business, so both outcomes are allowed.
update_image_display ==
    /\ shown < Len(image_received)
    /\ shown' = shown + 1
    /\ pixmap' = out_jpg
    /\ \E isNull \in (IF out_jpg = <<>> THEN {TRUE} ELSE BOOLEAN) :
         image_label' = IF isNull THEN image_label ELSE out_jpg
    /\ UNCHANGED << HAS_PIL, pilAccepts, buf, out_jpg, image_received, stream, budget,
                    raised, last, hpc, hloc >>

NextThreads ==
    \/ \E data \in Chunks : HandleScan(data)
    \/ HandleOpen
    \/ HandleWrite
    \/ HandleEmit
    \/ HandleAdvance
    \/ update_image_display

SpecThreads == InitThreads /\ [][NextThreads]_vars

\* ---- vocabulary of the properties ------------------------------------------

Range(q) == { q[i] : i \in 1..Len(q) }

\* offsets at which the start marker, resp. the end marker, occurs in b
Starts(b) == { i - 1 : i \in { j \in 1..(Len(b) - 1) : b[j] = 255 /\ b[j + 1] = 216 } }

Ends(b) == { i - 1 : i \in { j \in 1..(Len(b) - 1) : b[j] = 255 /\ b[j + 1] = 217 } }

\* Among the start offsets S and end offsets E of a buffer: s is the first
\* start marker and e the first end marker at or after s+2.
IsCandidate(S, E, s, e) ==
    /\ s \in S
    /\ \A j \in S : s <= j
    /\ e \in E
    /\ e >= s + 2
    /\ \A j \in E : j >= s + 2 => e <= j

\* b holds a complete start/end marker pair
HasPair(b) ==
    LET S == Starts(b)
        E == Ends(b)
    IN  \E s \in S : \E e \in E : IsCandidate(S, E, s, e)

\* Python's b[i:j]
Slice(b, i, j) == SubSeq(b, i + 1, j)

\* the chunk a step delivers: what it adds to the stream
Delivered == SubSeq(stream', Len(stream) + 1, Len(stream'))

\* f is START + payload + END
IsFramed(f) ==
    /\ Len(f) >= 4
    /\ Slice(f, 0, 2) = JPEG_START
    /\ Slice(f, Len(f) - 2, Len(f)) = JPEG_END

\* ... and the end marker occurs nowhere in it but at its end
IsDelimited(f) == IsFramed(f) /\ Ends(f) = {Len(f) - 2}

\* The whole of st delivered as one chunk to a fresh extractor, followed by
\* calls with empty chunks until the buffer holds no complete pair.
RECURSIVE DrainFrom(_, _)
DrainFrom(b, out) ==
    LET r == Scan(b) IN
    IF r.ret \in {"noStart", "noEnd"} THEN [buf |-> b, out |-> out]
    ELSE DrainFrom(r.buf, IF r.ret = "emitted" THEN Append(out, r.jpg) ELSE out)

\* The whole of st delivered as one chunk to a fresh extractor: what that
\* single call emits.
OneChunk(st) == LET r == Scan(st) IN IF r.ret = "emitted" THEN <<r.jpg>> ELSE <<>>

\* ---- C1 ---------------------------------------------------------------------

\* C1 (as stated): at the end of the last call of any division of the bytes
\* delivered so far, the set of payloads emitted equals the set emitted when
\* the same bytes are delivered as one single chunk.
C1_SplitInvariantAtLastCall == Range(image_received) = Range(OneChunk(stream))

\* C1 (amended): once the buffer holds no complete start/end pair, the
\* sequence of payloads emitted, and the buffer, are those of the same bytes
\* delivered as one single chunk and drained by calls with empty chunks.
C1_SplitInvariantOnceDrained ==
    ~HasPair(buf) =>
        LET d == DrainFrom(stream, <<>>)
        IN  image_received = d.out /\ buf = d.buf

\* Two frames were emitted from bytes that arrived in at least three chunks.
C1_Witness ==
    /\ ~HasPair(buf)
    /\ Len(image_received) = 2
    /\ budget <= MaxChunks - 3

\* ---- C2 ---------------------------------------------------------------------

\* C2: every payload emitted is buffer[s : e+2] of the buffer as extended by
\* the call, for its first start marker s and the first end marker e >= s+2;
\* it begins with FF D8, ends with FF D9, is at least MinJpegLen long, was
\* accepted by the validator, and is what the output file holds.
C2_EmittedIsValidatedCandidate ==
    [][ image_received' # image_received =>
          LET b == buf \o Delivered
              p == image_received'[Len(image_received')]
          IN  /\ image_received' = Append(image_received, p)
              /\ \E s \in Starts(b) : \E e \in Ends(b) :
                    IsCandidate(Starts(b), Ends(b), s, e) /\ p = Slice(b, s, e + 2)
              /\ IsFramed(p)
              /\ Len(p) >= MinJpegLen
              /\ _valid_jpeg(p)
              /\ out_jpg' = p ]_vars

\* A payload was emitted from a buffer with garbage in front of the frame.
C2_Witness ==
    /\ last.ret = "emitted"
    /\ Len(image_received) = 1
    /\ Len(stream) > Len(image_received[1]) + Len(buf)

\* ---- C3 ---------------------------------------------------------------------

\* The stream delivered so far is garbage1 + F + garbage2 with F = stream[s : e+2]
\* starting with the start marker, ending with the end marker and accepted by
\* the validator, and no marker in either garbage part: s is the first start
\* marker, e the last end marker, no end marker lies before s and no start
\* marker after e.
IsGarbageFrameGarbage(S, E, s, e) ==
    /\ e >= s + 2
    /\ \A j \in S : s <= j /\ j < e
    /\ \A j \in E : s < j /\ j <= e
    /\ _valid_jpeg(Slice(stream, s, e + 2))

\* C3 (as stated): for a stream garbage1 + START + validPayload + END + garbage2,
\* in any chunking, exactly one payload has been emitted and it is
\* START + validPayload + END.
C3_OneEmissionOfTheFrame ==
    LET S == Starts(stream)
        E == Ends(stream)
    IN  \A s \in S : \A e \in E :
            IsGarbageFrameGarbage(S, E, s, e) =>
                image_received = << Slice(stream, s, e + 2) >>

\* C3 (amended): the same, for a frame in which the end marker occurs only at
\* its end; the buffer is then left holding garbage2.
C3_OneEmissionOfTheDelimitedFrame ==
    LET S == Starts(stream)
        E == Ends(stream)
    IN  \A s \in S : \A e \in E :
            IsGarbageFrameGarbage(S, E, s, e) /\ E = {e} =>
                /\ image_received = << Slice(stream, s, e + 2) >>
                /\ buf = Slice(stream, e + 2, Len(stream))

\* Garbage, a frame, garbage, in MaxChunks chunks: the frame was emitted.
C3_Witness ==
    LET S == Starts(stream)
        E == Ends(stream)
    IN  \E s \in S : \E e \in E :
            /\ IsGarbageFrameGarbage(S, E, s, e)
            /\ E = {e}
            /\ s > 0
            /\ e + 2 < Len(stream)
            /\ budget = 0
            /\ image_received = << Slice(stream, s, e + 2) >>

\* ---- C4 ---------------------------------------------------------------------

\* The stream delivered so far is F1 + F2 with F1 = stream[0 : k], both
\* START + payload + END and accepted by the validator.
IsTwoFrames(k) ==
    /\ IsFramed(Slice(stream, 0, k))
    /\ IsFramed(Slice(stream, k, Len(stream)))
    /\ _valid_jpeg(Slice(stream, 0, k))
    /\ _valid_jpeg(Slice(stream, k, Len(stream)))

\* F1 was emitted and the buffer holds exactly F2, or F1 and then F2 were
\* emitted and the buffer is empty.
TwoFramesInOrder(k) ==
    \/ /\ image_received = << Slice(stream, 0, k) >>
       /\ buf = Slice(stream, k, Len(stream))
    \/ /\ image_received = << Slice(stream, 0, k), Slice(stream, k, Len(stream)) >>
       /\ buf = <<>>

\* C4 (as stated): for a stream of two back-to-back frames F1 + F2, each
\* START + payload + END accepted by the validator, the calls emit F1, then
\* F2, and nothing else, the buffer being advanced past each frame as it is
\* emitted; once no complete pair is left both have been emitted.
C4_TwoFramesInOrder ==
    \A k \in Starts(stream) :
        IsTwoFrames(k) => TwoFramesInOrder(k) /\ (~HasPair(buf) => buf = <<>>)

\* C4 (amended): the same, for frames in which the end marker occurs only at
\* the end.
C4_TwoDelimitedFramesInOrder ==
    \A k \in Starts(stream) :
        ( /\ IsTwoFrames(k)
          /\ IsDelimited(Slice(stream, 0, k))
          /\ IsDelimited(Slice(stream, k, Len(stream))) )
        => TwoFramesInOrder(k) /\ (~HasPair(buf) => buf = <<>>)

\* Two different frames arrived in one chunk and an empty call emitted the second.
C4_Witness ==
    /\ stream = FRAME \o FRAME2
    /\ image_received = << FRAME, FRAME2 >>
    /\ last = [empty |-> TRUE, ret |-> "emitted"]

\* ---- C5 ---------------------------------------------------------------------

\* stream[0 : k] is START + shortBytes + END, shorter than the minimum
IsShortCandidate(k) ==
    /\ k < MinJpegLen
    /\ IsFramed(Slice(stream, 0, k))

\* The short candidate was not emitted and the buffer was advanced past its
\* start marker: it is what follows a start marker of the stream (the first
\* one, or a later one inside shortBytes once that one was dropped too).
ShortDropped ==
    /\ image_received = <<>>
    /\ \E s \in Starts(stream) : buf = Slice(stream, s + 2, Len(stream))

\* The stream is the short candidate followed by the frame F = stream[k : ].
IsShortThenFrame(k) ==
    /\ IsShortCandidate(k)
    /\ IsFramed(Slice(stream, k, Len(stream)))
    /\ _valid_jpeg(Slice(stream, k, Len(stream)))

\* Nothing but F is ever emitted, and F has been once no pair is left.
LaterFrameRecovered(k) ==
    /\ image_received \in { <<>>, << Slice(stream, k, Len(stream)) >> }
    /\ ~HasPair(buf) => image_received = << Slice(stream, k, Len(stream)) >> /\ buf = <<>>

\* C5 (as stated): a stream START + shortBytes + END shorter than the minimum
\* yields no emission and the buffer is advanced past the false start marker;
\* a complete valid frame that follows it is emitted by the subsequent calls.
C5_ShortCandidateDoesNotBlock ==
    /\ IsShortCandidate(Len(stream)) => ShortDropped
    /\ \A k \in Starts(stream) : IsShortThenFrame(k) => LaterFrameRecovered(k)

\* C5 (amended): the same, for a following frame in which the end marker
\* occurs only at the end.
C5_ShortCandidateDoesNotBlockDelimited ==
    /\ IsShortCandidate(Len(stream)) => ShortDropped
    /\ \A k \in Starts(stream) :
          IsShortThenFrame(k) /\ IsDelimited(Slice(stream, k, Len(stream)))
              => LaterFrameRecovered(k)

\* START, END and then a frame arrived: the short candidate was dropped and
\* the frame was emitted.
C5_Witness ==
    /\ stream = JPEG_START \o JPEG_END \o FRAME
    /\ image_received = << FRAME >>
    /\ buf = <<>>

\* ---- C6 ---------------------------------------------------------------------

\* C6: when the write of an accepted payload fails during a call, the buffer
\* is left as if the emission had succeeded: advanced past the frame.
C6_SinkFailureLeavesBufferAdvanced ==
    [][ last'.ret = "raised" => buf' = Scan(buf \o Delivered).buf ]_vars

\* ---- C7 ---------------------------------------------------------------------

\* the payloads whose write to the output file has finished
WrittenPayloads ==
    Range(image_received) \cup (IF hpc \in {"emit", "advance"} THEN {hloc.jpg} ELSE {})

\* C7: under every interleaving, what the GUI thread loads from the output
\* file in response to a signal is a completely written validated payload.
C7_NotifiedReaderSeesCompletePayload == shown > 0 => pixmap \in WrittenPayloads

\* ---- C8 ---------------------------------------------------------------------

\* C8 (as stated): from every reachable state, a call with an empty chunk
\* emits nothing and leaves the buffer unchanged.
C8_EmptyIngestChangesNothing ==
    [][ last'.empty => buf' = buf /\ image_received' = image_received ]_vars

\* C8 (amended): from every reachable state whose buffer holds no complete
\* start/end pair, a call with an empty chunk emits nothing and leaves the
\* buffer unchanged.
C8_EmptyIngestChangesNothingWithoutPair ==
    [][ last'.empty /\ ~HasPair(buf) =>
            buf' = buf /\ image_received' = image_received ]_vars

\* An empty chunk was delivered to a buffer that holds bytes but no pair.
C8_Witness ==
    /\ last.empty
    /\ last.ret \in {"noStart", "noEnd"}
    /\ buf # <<>>
    /\ ~HasPair(buf)

\* ---- C9 ---------------------------------------------------------------------

\* C9: a call that does not complete a start/end pair emits nothing and
\* changes the buffer only by appending its chunk.
C9_NoPairOnlyAppends ==
    [][ ~HasPair(buf \o Delivered) =>
            buf' = buf \o Delivered /\ image_received' = image_received ]_vars

\* A start marker and no end marker, fed in MaxChunks pieces after garbage:
\* nothing emitted, every byte retained.
C9_Witness ==
    /\ budget = 0
    /\ Starts(buf) # {}
    /\ Ends(buf) = {}
    /\ Min(Starts(buf)) > 0
    /\ buf = stream
    /\ image_received = <<>>

\* ---- C10 --------------------------------------------------------------------

\* C10: a call that returns without an emission leaves a buffer that holds
\* no complete start/end marker pair.
C10_NoEmissionLeavesNoPair ==
    last.ret \in {"noStart", "noEnd", "invalid"} => ~HasPair(buf)

====
